---- MODULE Spec2Model ----
(***************************************************************************)
(* cloudinit/sources/DataSourceOVF.py: the OVF datasource.                 *)
(*                                                                         *)
(* One run of DataSourceOVF._get_data is a walk of pc from "start" to one  *)
(* of the terminal positions "ret_true", "ret_false" (the return value) or *)
(* "raised" (an exception leaves _get_data).  Every call of an external    *)
(* collaborator that is visible from outside (a status report, a deletion  *)
(* of the IMC directory, a transport being consulted, ...) is appended to  *)
(* events, in program order.  The marker directory outlives the runs.      *)
(*                                                                         *)
(* Python values are modelled by strings ("None", "", "True", "False", or  *)
(* a proper value); file names and URLs by tuples of their pieces.         *)
(***************************************************************************)
EXTENDS Integers, Sequences, FiniteSets, TLC

VARIABLES
    \* the run of _get_data
    pc,                      \* position in _get_data
    events,                  \* calls of the collaborators, in program order
    raised,                  \* the exception that left _get_data ("None": none)
    failed,                  \* <<step, error>> of the step whose collaborator raised
    vmware_customization_supported,
    system_type,             \* dmi.read_dmi_data("system-product-name")
    allow_vmware_cust, allow_raw_data,
    contents,                \* the OVF document of the seed file or of a transport
    vmwareImcConfigFilePath, md_path, ud_path, nicspath,
    conf,                    \* self._vmware_cust_conf
    product_marker, special_customization,
    nics_to_enable,          \* self._vmware_nics_to_enable
    network_config,          \* self._network_config
    found, md,
    md_seed,                 \* the metadata util.read_seeded returned
    published,               \* self.seed / self.metadata after the run
    custFound,               \* wait_for_imc_cfg_file returned a path in this run
    discarded,               \* the feature flags reset vmwareImcConfigFilePath
    \* wait_for_imc_cfg_file
    ds_cfg,                  \* what get_max_wait_from_cfg was called with, while
                             \* the wait that its result bounds lasts
    wpc, maxwait, naplen, waited, totalSleep, wresult,
    \* the marker directory (cloud_dir/data), which outlives the runs
    dir,
    lastMarkerCall,          \* <<outcome, markerid>> of the last setup_marker_files
    everWritten,             \* the marker ids whose file was ever written
    priorLast, priorWritten  \* lastMarkerCall, everWritten when the run checked

runVars == <<pc, events, raised, failed, vmware_customization_supported,
             system_type, md_seed,
             allow_vmware_cust, allow_raw_data, contents,
             vmwareImcConfigFilePath, md_path, ud_path, nicspath, conf,
             product_marker, special_customization, nics_to_enable,
             network_config, found, md, published, custFound, discarded>>
waitVars == <<ds_cfg, wpc, maxwait, naplen, waited, totalSleep, wresult>>
markerVars == <<dir, lastMarkerCall, everWritten, priorLast, priorWritten>>
vars == <<runVars, waitVars, markerVars>>

----------------------------------------------------------------------------
(* Bounds of the model *)

\* how many distinct product marker ids the configurations draw from
NumMarkerIds == 2
\* wait_for_imc_cfg_file alone: maxwait in 0..MaxWaitArg, naplen in 1..MaxNapArg
MaxWaitArg == 12
MaxNapArg == 6

(* Program constants *)

\* default_max_wait of get_max_wait_from_cfg
default_max_wait == 15
\* the default of wait_for_imc_cfg_file's naplen, which _get_data does not pass
DefaultNaplen == 5

None == "None"

\* Python's truth value of a string-modelled value
Truthy(x) == x \notin {"None", "", "False"}

\* Python's `a and b`
PyAnd(a, b) == IF Truthy(a) THEN b ELSE a

PyBool(b) == IF b THEN "True" ELSE "False"

MarkerIdPool == <<"A", "B", "C", "D">>
MarkerIds == {MarkerIdPool[i] : i \in 1..NumMarkerIds}

----------------------------------------------------------------------------
(* The status protocol: the calls the platform sees *)

GUESTCUST_STATE_RUNNING == "RUNNING"
GUESTCUST_STATE_DONE == "DONE"
GUESTCUST_ERROR_SUCCESS == "ERROR_SUCCESS"
GUESTCUST_ERROR_SCRIPT_DISABLED == "ERROR_SCRIPT_DISABLED"
GUESTCUST_ERROR_WRONG_META_FORMAT == "ERROR_WRONG_META_FORMAT"
GUESTCUST_EVENT_CUSTOMIZE_FAILED == "EVENT_CUSTOMIZE_FAILED"
GUESTCUST_EVENT_NETWORK_SETUP_FAILED == "EVENT_NETWORK_SETUP_FAILED"

\* set_customization_status(state, code)
StatusEv(state, code) == <<"status", state, code>>
\* set_gc_status(conf, text)
GcEv(text) == <<"gc", text>>
\* util.del_dir of the IMC directory
DelDirEv == <<"del_dir">>
\* enable_nics(self._vmware_nics_to_enable)
EnableNicsEv == <<"enable_nics">>
\* a source of metadata being looked at
ConsultEv(name) == <<"consult", name>>
\* a transport function of np being called, and what it returned
TransportEv(name, c) == <<"transport", name, c>>

VMWARE_IMC_DIR == "/var/run/vmware-imc"

\* os.path.join(VMWARE_IMC_DIR, name)
ImcPath(name) == VMWARE_IMC_DIR \o "/" \o name

----------------------------------------------------------------------------
(* The marker store.  A directory is the set of its file names; a file     *)
(* name is the tuple of the pieces it is concatenated from.                *)

MarkerFileName(markerid) == <<".markerfile", "-", markerid, ".txt">>

\* fname.startswith(".markerfile")
StartsWithMarkerfile(fname) == Len(fname) >= 1 /\ fname[1] = ".markerfile"

MarkerFilesIn(d) == {f \in d : StartsWithMarkerfile(f)}

\* a check that looks for another file name and so never finds the marker
check_marker_exists_other(markerid, marker_dir) ==
    IF ~Truthy(markerid) THEN FALSE
    ELSE <<".markerfile", "-", markerid>> \in marker_dir

\* a check that is content with the marker file of any id
check_marker_exists_any(markerid, marker_dir) ==
    MarkerFilesIn(marker_dir) # {}

check_marker_exists(markerid, marker_dir) ==
    IF ~Truthy(markerid) THEN FALSE
    ELSE MarkerFileName(markerid) \in marker_dir

\* the loop of setup_marker_files: every file that starts with .markerfile goes
DeleteMarkerFiles(marker_dir) ==
    {f \in marker_dir : ~StartsWithMarkerfile(f)}

\* a setup_marker_files that forgets to delete the older marker files
setup_marker_files_keep(markerid, marker_dir) ==
    marker_dir \cup {MarkerFileName(markerid)}

setup_marker_files(markerid, marker_dir) ==
    DeleteMarkerFiles(marker_dir) \cup {MarkerFileName(markerid)}

\* the files of cloud_dir/data that are no marker files
OtherDataFiles == {<<"instance-id">>}

----------------------------------------------------------------------------
(* The IMC directory and the customization configuration *)

MetaDataFile == "metadata.yaml"
UserDataFile == "userdata.txt"
NicsFile == "nics.txt"
ImcFileNames == {MetaDataFile, UserDataFile, NicsFile}

\* what Config(ConfigFile(cust.cfg)) can hold, as far as _get_data reads it:
\* the configurations of the legacy workflow
LegacyConfigs ==
    [meta_data_name : {None},
     user_data_name : {None},
     marker_id : {None, ""} \cup MarkerIds,
     admin_password : {None, "secret"},
     reset_password : {"None", "True"}]

\* the configurations that name a metadata file
RawConfigs ==
    [meta_data_name : {MetaDataFile},
     user_data_name : {None, UserDataFile},
     marker_id : {None, MarkerIdPool[1]},
     admin_password : {"secret"},
     reset_password : {"None"}]

Configs == LegacyConfigs \cup RawConfigs

NoConf ==
    [meta_data_name |-> None, user_data_name |-> None, marker_id |-> None,
     admin_password |-> None, reset_password |-> None]

\* a collect_imc_file_paths that takes a missing declared file for an absent
\* one and goes on without it
collect_imc_file_paths_lenient(cust_conf, files) ==
    LET md_file == cust_conf.meta_data_name
        ud_file == cust_conf.user_data_name
    IN  [error |-> None,
         md_path |-> IF Truthy(md_file) /\ md_file \in files
                     THEN ImcPath(md_file) ELSE None,
         ud_path |-> IF Truthy(md_file) /\ md_file \in files
                        /\ Truthy(ud_file) /\ ud_file \in files
                     THEN ImcPath(ud_file) ELSE None,
         nics_path |-> IF ~Truthy(md_file) /\ NicsFile \in files
                       THEN ImcPath(NicsFile) ELSE None]

\* a collect_imc_file_paths that looks for nics.txt whether or not a metadata
\* file is declared
collect_imc_file_paths_nics_too(cust_conf, files) ==
    LET md_file == cust_conf.meta_data_name
        ud_file == cust_conf.user_data_name
        missing == Truthy(md_file)
                   /\ (md_file \notin files
                       \/ (Truthy(ud_file) /\ ud_file \notin files))
    IN  IF missing
        THEN [error |-> "FileNotFoundError", md_path |-> None,
              ud_path |-> None, nics_path |-> None]
        ELSE [error |-> None,
              md_path |-> IF Truthy(md_file) THEN ImcPath(md_file) ELSE None,
              ud_path |-> IF Truthy(md_file) /\ Truthy(ud_file)
                          THEN ImcPath(ud_file) ELSE None,
              nics_path |-> IF NicsFile \in files THEN ImcPath(NicsFile)
                            ELSE None]

\* collect_imc_file_paths: files are the names present in VMWARE_IMC_DIR
collect_imc_file_paths(cust_conf, files) ==
    LET md_file == cust_conf.meta_data_name
        ud_file == cust_conf.user_data_name
    IN  IF Truthy(md_file)
        THEN IF md_file \notin files
             THEN [error |-> "FileNotFoundError", md_path |-> None,
                   ud_path |-> None, nics_path |-> None]
             ELSE IF Truthy(ud_file)
                  THEN IF ud_file \notin files
                       THEN [error |-> "FileNotFoundError", md_path |-> None,
                             ud_path |-> None, nics_path |-> None]
                       ELSE [error |-> None, md_path |-> ImcPath(md_file),
                             ud_path |-> ImcPath(ud_file), nics_path |-> None]
                  ELSE [error |-> None, md_path |-> ImcPath(md_file),
                        ud_path |-> None, nics_path |-> None]
        ELSE [error |-> None, md_path |-> None, ud_path |-> None,
              nics_path |-> IF NicsFile \in files THEN ImcPath(NicsFile)
                            ELSE None]

----------------------------------------------------------------------------
(* get_max_wait_from_cfg.  The configured value is <<"empty">> (no ds_cfg),*)
(* <<"absent">> (no such option), <<"int", n>>, <<"digits", n>> (a string  *)
(* that int() parses to n), <<"str", s>> (any other string) or <<"none">>. *)

\* int(cfg.get(option, default_max_wait))
IntOf(v) ==
    CASE v[1] = "absent" -> [error |-> None, value |-> default_max_wait]
      [] v[1] = "int"    -> [error |-> None, value |-> v[2]]
      [] v[1] = "digits" -> [error |-> None, value |-> v[2]]
      [] v[1] = "str"    -> [error |-> "ValueError", value |-> 0]
      [] OTHER           -> [error |-> "TypeError", value |-> 0]

get_max_wait_from_cfg(cfg) ==
    IF cfg[1] = "empty"
    THEN [error |-> None, value |-> default_max_wait]
    ELSE LET r == IntOf(cfg)
             max_wait == IF r.error = "ValueError" THEN default_max_wait
                         ELSE r.value
         IN  IF r.error = "TypeError"
             THEN [error |-> "TypeError", value |-> 0]
             ELSE [error |-> None,
                   value |-> IF max_wait < 0 THEN default_max_wait
                             ELSE max_wait]

\* the values of vmware_cust_file_max_wait the runs draw from
DsCfgValues ==
    {<<"empty">>, <<"absent">>, <<"int", 0 - 5>>, <<"int", 0>>, <<"int", 7>>,
     <<"int", 30>>, <<"digits", 30>>, <<"str", "abc">>, <<"none">>}

----------------------------------------------------------------------------
(* Metadata: a function from keys to values.  A seedfrom value is the      *)
(* tuple <<scheme, rest>> of the URL, the empty string the empty tuple.    *)

EmptyMd == [k \in {} |-> ""]

MdKeys(m) == DOMAIN m

\* util.mergemanydict([a, b]) with the default mergers: a key of both keeps
\* the value of the earlier dictionary
MergeManyDict(a, b) ==
    [k \in (DOMAIN a) \cup (DOMAIN b) |-> IF k \in DOMAIN a THEN a[k] ELSE b[k]]

defaults == [k \in {"instance-id"} |-> <<"iid-dsovf">>]

SeedFromValues == {<<>>, <<"/", "seed">>, <<"http://", "host">>, <<"ftp://", "host">>}

\* seedfrom.startswith(proto)
StartsWithProto(seedfrom, proto) == Len(seedfrom) >= 1 /\ seedfrom[1] = proto

\* the metadata an OVF document or a metadata file can yield
MdChoices ==
    {EmptyMd, [k \in {"instance-id"} |-> <<"iid-1">>]}
    \cup {[k \in {"seedfrom"} |-> s] : s \in SeedFromValues}
    \cup {[k \in {"instance-id", "seedfrom"} |->
             IF k = "seedfrom" THEN s ELSE <<"iid-1">>] : s \in SeedFromValues}

\* the metadata util.read_seeded can fetch
MdSeedChoices == {EmptyMd, [k \in {"instance-id"} |-> <<"iid-seed">>]}

\* read_vmware_imc(config): the metadata of the legacy path
read_vmware_imc_md == [k \in {"instance-id"} |-> <<"iid-vmware-imc">>]

supported_seed_starts(supported) ==
    IF supported THEN <<"/", "file://">> ELSE <<"http://", "https://">>


----------------------------------------------------------------------------
(* Sources of an OVF document *)

\* a document get_properties reads: an Environment with a PropertySection
OvfDoc == "<Environment><PropertySection/></Environment>"

\* a document get_properties rejects: an Environment without child nodes
BadOvfDoc == "<Environment/>"

\* get_properties(contents): the exception it raises, None when it returns.
\* minidom.parseString fails on the empty text; a document whose root is no
\* Environment, or has no child nodes or no PropertySection, is an XmlError
get_properties(doc) ==
    IF doc = "" THEN "ExpatError"
    ELSE IF doc = BadOvfDoc THEN "XmlError"
    ELSE None

env_names == <<"ovf-env.xml", "ovf_env.xml", "OVF_ENV.XML", "OVF-ENV.XML">>

\* a directory that may hold OVF files: per name of env_names "absent",
\* "unreadable" (util.load_file raises) or the file's text
OvfDirStates ==
    [1..Len(env_names) -> {"absent", "unreadable", "", OvfDoc, BadOvfDoc}]

\* get_ovf_env(dirname): <<fname, contents>> of the first name that loads
get_ovf_env(d) ==
    LET ok == {i \in DOMAIN d : d[i] \notin {"absent", "unreadable"}}
    IN  IF ok = {} THEN <<None, "False">>
        ELSE LET i == CHOOSE j \in ok : \A k \in ok : j <= k
             IN  <<env_names[i], d[i]>>

\* dmi.read_dmi_data("system-product-name"): absent, or a name (its letters)
DmiValues ==
    {<<"absent">>, <<"name", <<>>>>,
     <<"name", <<"V", "M", "w", "a", "r", "e", "7">>>>,
     <<"name", <<"x", "v", "m", "w", "a", "r", "e">>>>,
     <<"name", <<"K", "V", "M">>>>}

LowerChar(c) ==
    CASE c = "V" -> "v" [] c = "M" -> "m" [] c = "K" -> "k" [] OTHER -> c

\* str.lower()
Lower(str) == [i \in 1..Len(str) |-> LowerChar(str[i])]

\* sub in str
Contains(str, sub) ==
    \E i \in 0..(Len(str) - Len(sub)) : SubSeq(str, i + 1, i + Len(sub)) = sub

\* a platform test that only asks whether there is a product name
IsVmwareAnyName(st) ==
    /\ st[1] = "name"
    /\ st[2] # <<>>

\* system_type and 'vmware' in system_type.lower()
IsVmware(st) ==
    /\ st[1] = "name"
    /\ st[2] # <<>>
    /\ Contains(Lower(st[2]), <<"v", "m", "w", "a", "r", "e">>)

\* util.get_cfg_option_bool(cfg, key, default) of an option that is "unset",
\* "True" or "False"
get_cfg_option_bool(value, default) ==
    IF value = "unset" THEN default ELSE value = "True"

\* the six directories of search_paths; the plugin is in some of them
NumSearchPaths == 6

\* the loop over search_paths: the first directory that holds the plugin, 0: none
deployPkgPluginPath(dirs) ==
    IF dirs = {} THEN 0 ELSE CHOOSE i \in dirs : \A k \in dirs : i <= k

\* what the guest-RPC tool can do: no tool, or exit code and stdout
RpcOutcomes ==
    {<<"no_tool">>, <<"exit", 0, "">>, <<"exit", 0, OvfDoc>>,
     <<"exit", 0, BadOvfDoc>>,
     <<"exit", 1, "">>, <<"exit", 2, "">>}

transport_vmware_guestinfo(o) ==
    IF o[1] = "no_tool" THEN None
    ELSE IF o[2] = 0 /\ o[3] # "" THEN o[3] ELSE None

\* what transport_iso9660 can return: None, or the text of the first OVF file
\* of a mounted or mountable cdrom device
IsoOutcomes == {None, "", OvfDoc, BadOvfDoc}

\* a loop over the transports without its break
NextTransportNoBreak(name, c) ==
    IF name = "com.vmware.guestInfo" THEN "iso"
    ELSE IF Truthy(c) THEN "ovf_read" ELSE "post"

\* the loop over np: where _get_data goes after transport name returned c
NextTransport(name, c) ==
    IF Truthy(c) THEN "ovf_read"
    ELSE IF name = "com.vmware.guestInfo" THEN "iso" ELSE "post"

----------------------------------------------------------------------------
(* wait_for_imc_cfg_file *)

\* if maxwait <= naplen: naplen = 1
ClampNap(mw, nl) == IF mw <= nl THEN 1 ELSE nl

\* a counter that counts the naps instead of their length
WaitedAfterNapCount(w, nl) == w + 1

\* waited += naplen
WaitedAfterNap(w, nl) == w + nl

WaitCall(mw, nl) ==
    /\ wpc' = "loop"
    /\ maxwait' = mw
    /\ naplen' = ClampNap(mw, nl)
    /\ waited' = 0
    /\ totalSleep' = 0
    /\ wresult' = None

\* the file is there: return its path
WaitFound ==
    /\ wpc = "loop"
    /\ waited < maxwait
    /\ wpc' = "done"
    /\ wresult' = ImcPath("cust.cfg")
    /\ UNCHANGED <<ds_cfg, maxwait, naplen, waited, totalSleep>>
    /\ UNCHANGED <<runVars, markerVars>>

\* the file is not there: time.sleep(naplen)
WaitNap ==
    /\ wpc = "loop"
    /\ waited < maxwait
    /\ totalSleep' = totalSleep + naplen
    /\ waited' = WaitedAfterNap(waited, naplen)
    /\ UNCHANGED <<ds_cfg, wpc, maxwait, naplen, wresult>>
    /\ UNCHANGED <<runVars, markerVars>>

\* the loop ends: return None
WaitTimeout ==
    /\ wpc = "loop"
    /\ ~(waited < maxwait)
    /\ wpc' = "done"
    /\ wresult' = None
    /\ UNCHANGED <<ds_cfg, maxwait, naplen, waited, totalSleep>>
    /\ UNCHANGED <<runVars, markerVars>>

----------------------------------------------------------------------------
(* _raise_error_status and the ends of the two workflows *)

\* the calls of _raise_error_status in another order: the directory first
RaiseEventsDelFirst(prefix, event) ==
    <<DelDirEv, StatusEv(GUESTCUST_STATE_RUNNING, event), GcEv(prefix)>>

RaiseEvents(prefix, event) ==
    <<StatusEv(GUESTCUST_STATE_RUNNING, event), GcEv(prefix), DelDirEv>>

\* a handler that reports and cleans up but does not raise: the run goes on
\* with the statement after the handler
RaiseErrorStatusNoRaise(prefix, error, event, step, after) ==
    /\ events' = events \o RaiseEvents(prefix, event)
    /\ raised' = raised
    /\ failed' = failed
    /\ pc' = after

\* a handler that cleans up and raises but reports nothing to the platform
RaiseErrorStatusSilent(prefix, error, event, step, after) ==
    /\ events' = Append(events, DelDirEv)
    /\ raised' = error
    /\ failed' = <<step, error>>
    /\ pc' = "raised"

\* _raise_error_status(prefix, error, event, config_file, conf), called by the
\* handler of step; after is the statement that follows the handler
RaiseErrorStatus(prefix, error, event, step, after) ==
    /\ events' = events \o RaiseEvents(prefix, event)
    /\ raised' = error
    /\ failed' = <<step, error>>
    /\ pc' = "raised"

\* an exception no handler of _get_data catches
Uncaught(error, step) ==
    /\ raised' = error
    /\ failed' = <<step, error>>
    /\ pc' = "raised"

\* an end of the raw-data workflow copied from the legacy one, enable_nics
\* included
RawFinishEventsEnableNics ==
    <<DelDirEv, EnableNicsEv,
      StatusEv(GUESTCUST_STATE_DONE, GUESTCUST_ERROR_SUCCESS),
      GcEv("Successful")>>

\* the end of the raw-data workflow
RawFinishEvents ==
    <<DelDirEv, StatusEv(GUESTCUST_STATE_DONE, GUESTCUST_ERROR_SUCCESS),
      GcEv("Successful")>>

\* an end that reports DONE before it cleans up
LegacyFinishEventsDoneFirst ==
    <<StatusEv(GUESTCUST_STATE_DONE, GUESTCUST_ERROR_SUCCESS), DelDirEv,
      EnableNicsEv, GcEv("Successful")>>

\* an end that leaves the IMC directory in place
LegacyFinishEventsNoDel ==
    <<EnableNicsEv, StatusEv(GUESTCUST_STATE_DONE, GUESTCUST_ERROR_SUCCESS),
      GcEv("Successful")>>

\* the end of the legacy workflow
LegacyFinishEvents ==
    <<DelDirEv, EnableNicsEv,
      StatusEv(GUESTCUST_STATE_DONE, GUESTCUST_ERROR_SUCCESS),
      GcEv("Successful")>>

\* the custom script of the configuration file, not disabled
customscript_enabled == "custom.sh"

\* Delphix: disable custom user scripts
customscript == None

cfgv == <<vmware_customization_supported, system_type, allow_vmware_cust,
          allow_raw_data, md_seed>>
imcv == <<vmwareImcConfigFilePath, md_path, ud_path, nicspath, conf,
          custFound, discarded>>
legv == <<product_marker, special_customization, nics_to_enable>>
outv == <<contents, network_config, found, md, published>>

----------------------------------------------------------------------------
(* DataSourceOVF._get_data *)

\* get_ovf_env(self.paths.seed_dir), read_dmi_data, and the choice of branch
GetOvfEnv ==
    /\ pc = "start"
    /\ \E d \in OvfDirStates, st \in DmiValues :
         LET r == get_ovf_env(d)
         IN  /\ events' = Append(events, ConsultEv("seed"))
             /\ system_type' = st
             /\ IF Truthy(r[1])
                THEN /\ contents' = r[2]
                     /\ pc' = "seed_read"
                ELSE /\ contents' = r[2]
                     /\ pc' = IF IsVmware(st) THEN "vmware_flags"
                              ELSE "select"
    /\ UNCHANGED <<raised, failed, vmware_customization_supported,
                   allow_vmware_cust, allow_raw_data, md_seed, imcv, legv,
                   network_config, found, md, published>>
    /\ UNCHANGED <<waitVars, markerVars>>

\* seed = ...; (md, ud, cfg) = read_ovf_environment(contents); found.append(seed)
SeedRead ==
    /\ pc = "seed_read"
    /\ \E m \in MdChoices :
         IF get_properties(contents) = None
         THEN /\ md' = m
              /\ found' = Append(found, "seed")
              /\ pc' = "post"
              /\ UNCHANGED <<raised, failed>>
         ELSE /\ Uncaught(get_properties(contents), "seed_read")
              /\ UNCHANGED <<md, found>>
    /\ UNCHANGED <<events, cfgv, imcv, legv, contents, network_config,
                   published>>
    /\ UNCHANGED <<waitVars, markerVars>>

\* the two feature flags
VmwareFlags ==
    /\ pc = "vmware_flags"
    /\ \E disable \in {"unset", "True", "False"},
          raw \in {"unset", "True", "False"} :
         LET avc == IF ~vmware_customization_supported THEN FALSE
                    ELSE ~get_cfg_option_bool(disable, TRUE)
             ard == IF ~vmware_customization_supported THEN FALSE
                    ELSE get_cfg_option_bool(raw, TRUE)
         IN  /\ allow_vmware_cust' = avc
             /\ allow_raw_data' = ard
             /\ pc' = IF ~(avc \/ ard) THEN "select" ELSE "plugin"
    /\ UNCHANGED <<events, raised, failed, vmware_customization_supported,
                   system_type, md_seed,
                   imcv, legv, outv>>
    /\ UNCHANGED <<waitVars, markerVars>>

\* the search for the plugin and the call of wait_for_imc_cfg_file
PluginSearch ==
    /\ pc = "plugin"
    /\ \E dirs \in SUBSET (1..NumSearchPaths), cfg \in DsCfgValues :
         LET max_wait == get_max_wait_from_cfg(cfg)
         IN  /\ events' = Append(events, ConsultEv("plugin"))
             /\ IF deployPkgPluginPath(dirs) # 0
                THEN /\ ds_cfg' = cfg
                     /\ IF max_wait.error # None
                        THEN /\ Uncaught(max_wait.error, "get_max_wait")
                             /\ UNCHANGED <<wpc, maxwait, naplen, waited,
                                            totalSleep, wresult>>
                        ELSE /\ WaitCall(max_wait.value, DefaultNaplen)
                             /\ pc' = "wait"
                             /\ UNCHANGED <<raised, failed>>
                ELSE /\ pc' = "select"
                     /\ UNCHANGED <<raised, failed>>
                     /\ UNCHANGED waitVars
    /\ UNCHANGED <<cfgv, imcv, legv, outv>>
    /\ UNCHANGED markerVars

\* wait_for_imc_cfg_file has returned: its locals and its arguments are gone
AfterWait ==
    /\ pc = "wait"
    /\ wpc = "done"
    /\ vmwareImcConfigFilePath' = wresult
    /\ custFound' = Truthy(wresult)
    /\ events' = Append(events, ConsultEv("cust.cfg"))
    /\ pc' = IF Truthy(wresult) THEN "cfg" ELSE "select"
    /\ ds_cfg' = <<"empty">>
    /\ wpc' = "idle"
    /\ maxwait' = 0
    /\ naplen' = DefaultNaplen
    /\ waited' = 0
    /\ totalSleep' = 0
    /\ wresult' = None
    /\ UNCHANGED <<raised, failed, cfgv, md_path, ud_path, nicspath, conf,
                   discarded, legv, outv>>
    /\ UNCHANGED markerVars

\* a discard that forgets the disabled VMware customization
DiscardConfigRawOnly(mdp, allow_raw, allow_cust) ==
    Truthy(mdp) /\ ~allow_raw

\* the two cases in which the customization is not handled:
\* if md_path and not allow_raw_data; if md_path is None and not allow_vmware_cust
DiscardConfig(mdp, allow_raw, allow_cust) ==
    \/ (Truthy(mdp) /\ ~allow_raw)
    \/ (mdp = None /\ ~allow_cust)

\* Config(ConfigFile(...)), collect_imc_file_paths and the two discards
CfgParse ==
    /\ pc = "cfg"
    /\ \E c \in Configs, files \in SUBSET ImcFileNames :
         LET r == collect_imc_file_paths(c, files)
         IN  /\ conf' = c
             /\ IF r.error # None
                THEN /\ RaiseErrorStatus("File(s) missing in directory",
                                         r.error,
                                         GUESTCUST_EVENT_CUSTOMIZE_FAILED,
                                         "collect", "select")
                     /\ UNCHANGED <<vmwareImcConfigFilePath, md_path, ud_path,
                                    nicspath, discarded>>
                ELSE LET drop == DiscardConfig(r.md_path, allow_raw_data,
                                               allow_vmware_cust)
                     IN  /\ md_path' = r.md_path
                         /\ ud_path' = r.ud_path
                         /\ nicspath' = r.nics_path
                         /\ vmwareImcConfigFilePath' =
                              IF drop THEN None ELSE vmwareImcConfigFilePath
                         /\ discarded' = drop
                         /\ pc' = "select"
                         /\ UNCHANGED <<events, raised, failed>>
    /\ UNCHANGED <<cfgv, custFound, legv, outv>>
    /\ UNCHANGED <<waitVars, markerVars>>

\* use_raw_data = bool(vmwareImcConfigFilePath and md_path), and the branch
Select ==
    /\ pc = "select"
    /\ pc' = IF Truthy(PyAnd(vmwareImcConfigFilePath, md_path)) THEN "raw"
             ELSE IF Truthy(vmwareImcConfigFilePath) THEN "legacy"
             ELSE "transports"
    /\ UNCHANGED <<events, raised, failed, cfgv, imcv, legv, outv>>
    /\ UNCHANGED <<waitVars, markerVars>>

\* the raw-data workflow: set_gc_status(self._vmware_cust_conf, "Started")
RawStarted ==
    /\ pc = "raw"
    /\ events' = Append(events, GcEv("Started"))
    /\ pc' = "raw_load"
    /\ UNCHANGED <<raised, failed, cfgv, imcv, legv, outv>>
    /\ UNCHANGED <<waitVars, markerVars>>

\* load_cloudinit_data(md_path, ud_path) and the network configuration
RawLoad ==
    /\ pc = "raw_load"
    /\ \E outcome \in {"ok", "YAMLError", "Exception"}, m \in MdChoices,
          network \in {"None", "network"} :
         CASE outcome = "ok" ->
                /\ md' = m
                /\ network_config' = IF Truthy(network) THEN network
                                     ELSE "fallback"
                /\ pc' = "raw_finish"
                /\ UNCHANGED <<events, raised, failed>>
           [] outcome = "YAMLError" ->
                /\ RaiseErrorStatus("Error parsing the cloud-init meta data",
                                    "YAMLError",
                                    GUESTCUST_ERROR_WRONG_META_FORMAT,
                                    "raw_yaml", "raw_finish")
                /\ UNCHANGED <<md, network_config>>
           [] OTHER ->
                /\ RaiseErrorStatus("Error loading cloud-init configuration",
                                    "Exception",
                                    GUESTCUST_EVENT_CUSTOMIZE_FAILED,
                                    "raw_load", "raw_finish")
                /\ UNCHANGED <<md, network_config>>
    /\ UNCHANGED <<cfgv, imcv, legv, contents, found, published>>
    /\ UNCHANGED <<waitVars, markerVars>>

\* found.append('vmware-tools'); del_dir; DONE; "Successful"
RawFinish ==
    /\ pc = "raw_finish"
    /\ found' = Append(found, "vmware-tools")
    /\ events' = events \o RawFinishEvents
    /\ pc' = "post"
    /\ UNCHANGED <<raised, failed, cfgv, imcv, legv, contents, network_config,
                   md, published>>
    /\ UNCHANGED <<waitVars, markerVars>>

\* the legacy workflow: set_gc_status(self._vmware_cust_conf, "Started")
LegacyStarted ==
    /\ pc = "legacy"
    /\ events' = Append(events, GcEv("Started"))
    /\ nics_to_enable' = ""
    /\ pc' = "legacy_parse"
    /\ UNCHANGED <<raised, failed, cfgv, imcv, product_marker,
                   special_customization, outv>>
    /\ UNCHANGED <<waitVars, markerVars>>

\* read_vmware_imc, get_nics_to_enable, the marker check and the gate of the
\* custom script
LegacyParse ==
    /\ pc = "legacy_parse"
    /\ \E ok \in BOOLEAN, custScriptConfig \in {"true", "false"} :
         LET marker == conf.marker_id
             hasmarkerfile == check_marker_exists(marker, dir)
             special == PyAnd(marker, PyBool(~hasmarkerfile))
         IN  IF ~ok
             THEN /\ RaiseErrorStatus(
                        "Error parsing the customization Config File",
                        "Exception", GUESTCUST_EVENT_CUSTOMIZE_FAILED,
                        "legacy_parse", "prescript")
                  /\ UNCHANGED <<md, nics_to_enable, product_marker,
                                 special_customization, priorLast,
                                 priorWritten>>
             ELSE IF Truthy(special) /\ Truthy(customscript)
                     /\ custScriptConfig # "true"
             THEN \* the script is disabled: RUNNING, then the handler
                  /\ events' = (events
                        \o <<<<"nics_parsed">>, <<"tools_config">>,
                             StatusEv(GUESTCUST_STATE_RUNNING,
                                      GUESTCUST_ERROR_SCRIPT_DISABLED)>>)
                        \o RaiseEvents(
                             "Error parsing the customization Config File",
                             GUESTCUST_EVENT_CUSTOMIZE_FAILED)
                                /\ Uncaught("RuntimeError", "legacy_parse")
                  /\ md' = read_vmware_imc_md
                  /\ nics_to_enable' = IF Truthy(nicspath) THEN "nics" ELSE ""
                  /\ product_marker' = marker
                  /\ special_customization' = special
                  /\ priorLast' = lastMarkerCall
                  /\ priorWritten' = everWritten
             ELSE /\ events' = (events \o <<<<"nics_parsed">>>>) \o
                        (IF Truthy(special) /\ Truthy(customscript)
                         THEN <<<<"tools_config">>>> ELSE <<>>)
                  /\ md' = read_vmware_imc_md
                  /\ nics_to_enable' = IF Truthy(nicspath) THEN "nics" ELSE ""
                  /\ product_marker' = marker
                  /\ special_customization' = special
                  /\ priorLast' = lastMarkerCall
                  /\ priorWritten' = everWritten
                  /\ pc' = "prescript"
                  /\ UNCHANGED <<raised, failed>>
    /\ UNCHANGED <<cfgv, imcv, contents, network_config, found, published>>
    /\ UNCHANGED <<waitVars, dir, lastMarkerCall, everWritten>>

\* an order of the steps in which the network configuration belongs to the
\* special customization
NextLegacyStepNetworkIfSpecial(step) ==
    CASE step = "prescript" ->
           IF Truthy(special_customization) THEN "network" ELSE "password"
      [] step = "network" -> "password"
      [] step = "password" -> "postscript"
      [] step = "postscript" -> "marker"
      [] OTHER -> "legacy_finish"

\* the order of the statements of the legacy workflow after the parsing:
\* the step that follows step
NextLegacyStep(step) ==
    CASE step = "prescript" -> "network"
      [] step = "network" -> "password"
      [] step = "password" -> "postscript"
      [] step = "postscript" -> "marker"
      [] OTHER -> "legacy_finish"

\* if special_customization: if customscript: PreCustomScript(...).execute()
PreScript ==
    /\ pc = "prescript"
    /\ IF Truthy(special_customization) /\ Truthy(customscript)
       THEN \E ok \in BOOLEAN :
              IF ok
              THEN /\ events' = Append(events, <<"prescript">>)
                   /\ pc' = NextLegacyStep("prescript")
                   /\ UNCHANGED <<raised, failed>>
              ELSE RaiseErrorStatus(
                     "Error executing pre-customization script", "Exception",
                     GUESTCUST_EVENT_CUSTOMIZE_FAILED, "prescript", "network")
       ELSE /\ pc' = NextLegacyStep("prescript")
            /\ UNCHANGED <<events, raised, failed>>
    /\ UNCHANGED <<cfgv, imcv, legv, outv>>
    /\ UNCHANGED <<waitVars, markerVars>>

\* self._network_config = get_network_config_from_conf(...)
Network ==
    /\ pc = "network"
    /\ \E ok \in BOOLEAN :
         IF ok
         THEN /\ events' = Append(events, <<"net_config">>)
              /\ network_config' = "network"
              /\ pc' = NextLegacyStep("network")
              /\ UNCHANGED <<raised, failed>>
         ELSE /\ RaiseErrorStatus("Error preparing Network Configuration",
                                  "Exception",
                                  GUESTCUST_EVENT_NETWORK_SETUP_FAILED,
                                  "network", "password")
              /\ UNCHANGED network_config
    /\ UNCHANGED <<cfgv, imcv, legv, contents, found, md, published>>
    /\ UNCHANGED <<waitVars, markerVars>>

\* a gate of the password step that forgets the special customization
ConfiguresPasswordAnyRun(special, adminpwd, resetpwd) ==
    Truthy(adminpwd) \/ Truthy(resetpwd)

\* if special_customization: ... if adminpwd or resetpwd: configure(...)
ConfiguresPassword(special, adminpwd, resetpwd) ==
    /\ Truthy(special)
    /\ Truthy(adminpwd) \/ Truthy(resetpwd)

\* if special_customization: the password, when one of the two is set
Password ==
    /\ pc = "password"
    /\ IF ConfiguresPassword(special_customization, conf.admin_password,
                             conf.reset_password)
       THEN \E ok \in BOOLEAN :
              IF ok
              THEN /\ events' = Append(events, <<"password">>)
                   /\ pc' = NextLegacyStep("password")
                   /\ UNCHANGED <<raised, failed>>
              ELSE RaiseErrorStatus(
                     "Error applying Password Configuration", "Exception",
                     GUESTCUST_EVENT_CUSTOMIZE_FAILED, "password",
                     "postscript")
       ELSE /\ pc' = NextLegacyStep("password")
            /\ UNCHANGED <<events, raised, failed>>
    /\ UNCHANGED <<cfgv, imcv, legv, outv>>
    /\ UNCHANGED <<waitVars, markerVars>>

\* if special_customization: if customscript: PostCustomScript(...).execute()
PostScript ==
    /\ pc = "postscript"
    /\ IF Truthy(special_customization) /\ Truthy(customscript)
       THEN \E ok \in BOOLEAN :
              IF ok
              THEN /\ events' = Append(events, <<"postscript">>)
                   /\ pc' = NextLegacyStep("postscript")
                   /\ UNCHANGED <<raised, failed>>
              ELSE RaiseErrorStatus(
                     "Error executing post-customization script", "Exception",
                     GUESTCUST_EVENT_CUSTOMIZE_FAILED, "postscript", "marker")
       ELSE /\ pc' = NextLegacyStep("postscript")
            /\ UNCHANGED <<events, raised, failed>>
    /\ UNCHANGED <<cfgv, imcv, legv, outv>>
    /\ UNCHANGED <<waitVars, markerVars>>

\* if product_marker: setup_marker_files(product_marker, cloud_dir/data).
\* The call can fail before it touched the directory (os.listdir) or after
\* it deleted the older marker files (open).
Marker ==
    /\ pc = "marker"
    /\ IF Truthy(product_marker)
       THEN \E outcome \in {"ok", "listdir", "open"} :
              CASE outcome = "ok" ->
                     /\ dir' = setup_marker_files(product_marker, dir)
                     /\ lastMarkerCall' = <<"ok", product_marker>>
                     /\ everWritten' = everWritten \cup {product_marker}
                     /\ events' = Append(events, <<"marker", product_marker>>)
                     /\ pc' = NextLegacyStep("marker")
                     /\ UNCHANGED <<raised, failed>>
                [] outcome = "listdir" ->
                     /\ RaiseErrorStatus("Error creating marker files",
                                         "OSError",
                                         GUESTCUST_EVENT_CUSTOMIZE_FAILED,
                                         "marker", "legacy_finish")
                     /\ UNCHANGED <<dir, lastMarkerCall, everWritten>>
                [] OTHER ->
                     /\ RaiseErrorStatus("Error creating marker files",
                                         "OSError",
                                         GUESTCUST_EVENT_CUSTOMIZE_FAILED,
                                         "marker", "legacy_finish")
                     /\ dir' = DeleteMarkerFiles(dir)
                     /\ lastMarkerCall' = <<"failed", product_marker>>
                     /\ UNCHANGED everWritten
       ELSE /\ pc' = NextLegacyStep("marker")
            /\ UNCHANGED <<events, raised, failed, dir, lastMarkerCall,
                           everWritten>>
    /\ UNCHANGED <<cfgv, imcv, legv, outv>>
    /\ UNCHANGED <<waitVars, priorLast, priorWritten>>

\* found.append('vmware-tools'); del_dir; enable_nics; DONE; "Successful"
LegacyFinish ==
    /\ pc = "legacy_finish"
    /\ found' = Append(found, "vmware-tools")
    /\ events' = events \o LegacyFinishEvents
    /\ pc' = "post"
    /\ UNCHANGED <<raised, failed, cfgv, imcv, legv, contents, network_config,
                   md, published>>
    /\ UNCHANGED <<waitVars, markerVars>>

\* the first transport of np: transport_vmware_guestinfo
TransportRpc ==
    /\ pc = "transports"
    /\ \E o \in RpcOutcomes :
         LET c == transport_vmware_guestinfo(o)
         IN  /\ contents' = c
             /\ events' = Append(events,
                                  TransportEv("com.vmware.guestInfo", c))
             /\ pc' = NextTransport("com.vmware.guestInfo", c)
    /\ UNCHANGED <<raised, failed, cfgv, imcv, legv, network_config,
                   found, md, published>>
    /\ UNCHANGED <<waitVars, markerVars>>

\* the second transport of np: transport_iso9660
TransportIso ==
    /\ pc = "iso"
    /\ \E c \in IsoOutcomes :
         /\ contents' = c
         /\ events' = Append(events, TransportEv("iso", c))
         /\ pc' = NextTransport("iso", c)
    /\ UNCHANGED <<raised, failed, cfgv, imcv, legv, network_config,
                   found, md, published>>
    /\ UNCHANGED <<waitVars, markerVars>>

\* the name of the loop over np when it ended: the last transport consulted
LastTransport ==
    events[Len(events)][2]

\* if contents: read_ovf_environment(contents, True); found.append(name)
OvfRead ==
    /\ pc = "ovf_read"
    /\ \E m \in MdChoices, network \in {"None", "network"} :
         IF get_properties(contents) = None
         THEN /\ md' = m
              /\ network_config' = IF Truthy(network) THEN network
                                   ELSE network_config
              /\ found' = Append(found, LastTransport)
              /\ pc' = "post"
              /\ UNCHANGED <<raised, failed>>
         ELSE /\ Uncaught(get_properties(contents), "ovf_read")
              /\ UNCHANGED <<md, network_config, found>>
    /\ UNCHANGED <<events, cfgv, imcv, legv, contents, published>>
    /\ UNCHANGED <<waitVars, markerVars>>

\* the text of a seedfrom value
SeedFromString(seedfrom) == seedfrom[1] \o seedfrom[2]

\* a loop that takes every seedfrom for supported
SeedFoundAny(seedfrom, supported) == TRUE

\* for proto in self.supported_seed_starts: if seedfrom.startswith(proto)
SeedFound(seedfrom, supported) ==
    LET starts == supported_seed_starts(supported)
    IN  \E i \in DOMAIN starts : StartsWithProto(seedfrom, starts[i])

\* md = util.mergemanydict([md, md_seed]) with its arguments the other way round
MergeSeedSeedFirst(m, seed) == MergeManyDict(seed, m)

\* md = util.mergemanydict([md, md_seed])
MergeSeed(m, seed) == MergeManyDict(m, seed)

\* md = util.mergemanydict([md, defaults]) with its arguments the other way round
MergeDefaultsFirst(m) == MergeManyDict(defaults, m)

\* md = util.mergemanydict([md, defaults])
MergeDefaults(m) == MergeManyDict(m, defaults)

\* after the branches: nothing found, and the seedfrom redirection up to
\* util.read_seeded
Post ==
    /\ pc = "post"
    /\ IF Len(found) = 0
       THEN /\ pc' = "ret_false"
            /\ UNCHANGED <<events, raised, failed, md_seed>>
       ELSE IF "seedfrom" \in DOMAIN md /\ md["seedfrom"] # <<>>
       THEN IF ~SeedFound(md["seedfrom"], vmware_customization_supported)
            THEN /\ pc' = "ret_false"
                 /\ UNCHANGED <<events, raised, failed, md_seed>>
            ELSE \E ok \in BOOLEAN, seed \in MdSeedChoices :
                   /\ events' = Append(events, <<"read_seeded">>)
                   /\ IF ok
                      THEN /\ md_seed' = seed
                           /\ pc' = "merge_seed"
                           /\ UNCHANGED <<raised, failed>>
                      ELSE /\ Uncaught("Exception", "read_seeded")
                           /\ UNCHANGED md_seed
       ELSE /\ pc' = "defaults"
            /\ UNCHANGED <<events, raised, failed, md_seed>>
    /\ UNCHANGED <<vmware_customization_supported, system_type,
                   allow_vmware_cust, allow_raw_data, imcv, legv, outv>>
    /\ UNCHANGED <<waitVars, markerVars>>

\* md = util.mergemanydict([md, md_seed]); found.append(seedfrom)
SeedMerge ==
    /\ pc = "merge_seed"
    /\ md' = MergeSeed(md, md_seed)
    /\ found' = Append(found, SeedFromString(md["seedfrom"]))
    /\ pc' = "defaults"
    /\ UNCHANGED <<events, raised, failed, cfgv, imcv, legv, contents,
                   network_config, published>>
    /\ UNCHANGED <<waitVars, markerVars>>

\* md = util.mergemanydict([md, defaults]); self.seed, self.metadata, ...
\* are assigned; return True
Defaults ==
    /\ pc = "defaults"
    /\ md' = MergeDefaults(md)
    /\ published' = <<found, md'>>
    /\ pc' = "ret_true"
    /\ UNCHANGED <<events, raised, failed, cfgv, imcv, legv, contents,
                   network_config, found>>
    /\ UNCHANGED <<waitVars, markerVars>>

----------------------------------------------------------------------------
(* The runs *)

Terminal == pc \in {"ret_true", "ret_false", "raised"}

\* the state of a datasource object after __init__
FreshRun(supported) ==
    /\ pc = "start"
    /\ events = <<>>
    /\ raised = None
    /\ failed = <<None, None>>
    /\ vmware_customization_supported = supported
    /\ system_type = <<"absent">>
    /\ md_seed = EmptyMd
    /\ allow_vmware_cust = FALSE
    /\ allow_raw_data = FALSE
    /\ contents = None
    /\ vmwareImcConfigFilePath = None
    /\ md_path = None
    /\ ud_path = None
    /\ nicspath = None
    /\ conf = NoConf
    /\ product_marker = None
    /\ special_customization = None
    /\ nics_to_enable = None
    /\ network_config = None
    /\ found = <<>>
    /\ md = EmptyMd
    /\ published = <<>>
    /\ custFound = FALSE
    /\ discarded = FALSE

WaitIdle ==
    /\ ds_cfg = <<"empty">>
    /\ wpc = "idle"
    /\ maxwait = 0
    /\ naplen = DefaultNaplen
    /\ waited = 0
    /\ totalSleep = 0
    /\ wresult = None

Init ==
    /\ \E supported \in BOOLEAN : FreshRun(supported)
    /\ WaitIdle
    /\ dir = OtherDataFiles
    /\ lastMarkerCall = <<"none", None>>
    /\ everWritten = {}
    /\ priorLast = <<"none", None>>
    /\ priorWritten = {}

\* the next boot: a new datasource object, the same marker directory
NewRun ==
    /\ Terminal
    /\ pc' = "start"
    /\ events' = <<>>
    /\ raised' = None
    /\ failed' = <<None, None>>
    /\ vmware_customization_supported' \in BOOLEAN
    /\ system_type' = <<"absent">>
    /\ md_seed' = EmptyMd
    /\ allow_vmware_cust' = FALSE
    /\ allow_raw_data' = FALSE
    /\ contents' = None
    /\ vmwareImcConfigFilePath' = None
    /\ md_path' = None
    /\ ud_path' = None
    /\ nicspath' = None
    /\ conf' = NoConf
    /\ product_marker' = None
    /\ special_customization' = None
    /\ nics_to_enable' = None
    /\ network_config' = None
    /\ found' = <<>>
    /\ md' = EmptyMd
    /\ published' = <<>>
    /\ custFound' = FALSE
    /\ discarded' = FALSE
    /\ ds_cfg' = <<"empty">>
    /\ wpc' = "idle"
    /\ maxwait' = 0
    /\ naplen' = DefaultNaplen
    /\ waited' = 0
    /\ totalSleep' = 0
    /\ wresult' = None
    /\ priorLast' = <<"none", None>>
    /\ priorWritten' = {}
    /\ UNCHANGED <<dir, lastMarkerCall, everWritten>>

Next ==
    \/ GetOvfEnv \/ SeedRead \/ VmwareFlags \/ PluginSearch
    \/ WaitFound \/ WaitNap \/ WaitTimeout \/ AfterWait
    \/ CfgParse \/ Select
    \/ RawStarted \/ RawLoad \/ RawFinish
    \/ LegacyStarted \/ LegacyParse \/ PreScript \/ Network \/ Password
    \/ PostScript \/ Marker \/ LegacyFinish
    \/ TransportRpc \/ TransportIso \/ OvfRead
    \/ Post \/ SeedMerge \/ Defaults \/ NewRun

Spec == Init /\ [][Next]_vars

\* _get_data is straight-line code on one thread of control: when its
\* collaborators return or raise, the statement that is next is executed
SpecFair == Spec /\ WF_vars(Next)

----------------------------------------------------------------------------
(* wait_for_imc_cfg_file on its own, for every maxwait and naplen *)

InitWait ==
    /\ FreshRun(TRUE)
    /\ \E mw \in 0..MaxWaitArg, nl \in 1..MaxNapArg :
         /\ ds_cfg = <<"int", mw>>
         /\ wpc = "loop"
         /\ maxwait = mw
         /\ naplen = ClampNap(mw, nl)
         /\ waited = 0
         /\ totalSleep = 0
         /\ wresult = None
    /\ dir = OtherDataFiles
    /\ lastMarkerCall = <<"none", None>>
    /\ everWritten = {}
    /\ priorLast = <<"none", None>>
    /\ priorWritten = {}

NextWait == WaitFound \/ WaitNap \/ WaitTimeout

SpecWait == InitWait /\ [][NextWait]_vars

\* time.sleep returns and the one thread of control goes on
SpecWaitFair == SpecWait /\ WF_vars(NextWait)

----------------------------------------------------------------------------
(* What a run reported, read off events *)

EventIdx == DOMAIN events

Reported(e) == \E i \in EventIdx : events[i] = e

\* a status report to the platform: a state with its code, or a status string
IsStatusReport(e) == e[1] \in {"status", "gc"}

IsRunningReport(e) == e[1] = "status" /\ e[2] = GUESTCUST_STATE_RUNNING

DoneEv == StatusEv(GUESTCUST_STATE_DONE, GUESTCUST_ERROR_SUCCESS)

\* how often the IMC directory was deleted in this run
DelCount == Cardinality({i \in EventIdx : events[i] = DelDirEv})

InFound(x) == \E i \in DOMAIN found : found[i] = x

\* the steps of the workflow whose failure a handler of _get_data catches
HandledSteps ==
    {"collect", "raw_yaml", "raw_load", "legacy_parse", "prescript",
     "network", "password", "postscript", "marker"}

\* the free-text prefix of each step
StepPrefix(step) ==
    CASE step = "collect" -> "File(s) missing in directory"
      [] step = "raw_yaml" -> "Error parsing the cloud-init meta data"
      [] step = "raw_load" -> "Error loading cloud-init configuration"
      [] step = "legacy_parse" -> "Error parsing the customization Config File"
      [] step = "prescript" -> "Error executing pre-customization script"
      [] step = "network" -> "Error preparing Network Configuration"
      [] step = "password" -> "Error applying Password Configuration"
      [] step = "postscript" -> "Error executing post-customization script"
      [] OTHER -> "Error creating marker files"

\* the event or error code of each step
StepCode(step) ==
    CASE step = "raw_yaml" -> GUESTCUST_ERROR_WRONG_META_FORMAT
      [] step = "network" -> GUESTCUST_EVENT_NETWORK_SETUP_FAILED
      [] OTHER -> GUESTCUST_EVENT_CUSTOMIZE_FAILED

\* the run took the legacy (nics.txt) workflow to its end
LegacySucceeded ==
    /\ InFound("vmware-tools")
    /\ md_path = None

----------------------------------------------------------------------------
(* The claims *)

C1_TailOnRaise ==
    (pc = "raised" /\ failed[1] \in HandledSteps) =>
        LET n == Len(events)
        IN  /\ n >= 3
            /\ events[n - 2] = StatusEv(GUESTCUST_STATE_RUNNING,
                                        StepCode(failed[1]))
            /\ events[n - 1] = GcEv(StepPrefix(failed[1]))
            /\ events[n] = DelDirEv
            /\ raised = failed[2]
            /\ raised # None
            /\ ~Reported(DoneEv)

C1_NothingAfterRaise ==
    (pc = "raised") => (pc' \in {"raised", "start"}
                        /\ (pc' = "raised" => events' = events))

C1_HandledStepRaises ==
    (failed[1] \in HandledSteps) => pc = "raised"

\* C1: when a step of the customization workflow fails (_raise_error_status
\* is called), the run reports RUNNING with the step's code, then the step's
\* prefix as status string, then deletes the IMC directory, then raises the
\* original error out of _get_data; nothing of the workflow runs after that.
C1_RaiseErrorStatusOrder ==
    /\ [](C1_TailOnRaise /\ C1_HandledStepRaises)
    /\ [][C1_NothingAfterRaise]_vars

\* a step in the middle of the legacy workflow failed
C1_Witness ==
    /\ pc = "raised"
    /\ failed = <<"network", "Exception">>
    /\ Reported(GcEv("Started"))

\* C2: a legacy run that succeeds ends with: marker file written (when a
\* marker id is declared, and then exactly that one marker file is left),
\* IMC directory deleted, NICs enabled, DONE with the success code,
\* "Successful"; DONE is reported only after the network configuration was
\* derived and the marker file written.
C2_LegacySuccessOrder ==
    /\ LegacySucceeded =>
         LET n == Len(events)
         IN  /\ n >= 5
             /\ events[n - 3] = DelDirEv
             /\ events[n - 2] = EnableNicsEv
             /\ events[n - 1] = DoneEv
             /\ events[n] = GcEv("Successful")
             /\ Truthy(product_marker) =>
                  /\ events[n - 4] = <<"marker", product_marker>>
                  /\ MarkerFilesIn(dir) = {MarkerFileName(product_marker)}
    /\ \A i \in EventIdx :
         (events[i] = DoneEv /\ Reported(<<"nics_parsed">>)) =>
            /\ \E j \in 1..(i - 1) : events[j] = <<"net_config">>
            /\ Truthy(product_marker) =>
                 \E k \in 1..(i - 1) : events[k] = <<"marker", product_marker>>

\* a legacy run with a marker id returned True
C2_Witness ==
    /\ pc = "ret_true"
    /\ LegacySucceeded
    /\ Truthy(product_marker)
    /\ Reported(<<"password">>)

\* C3: a run that reported RUNNING (a failing step) never reports DONE or
\* "Successful", and a run that reported DONE never reports RUNNING.
C3_NoPartialSuccess ==
    (\E i \in EventIdx : IsRunningReport(events[i])) =>
        /\ ~Reported(DoneEv)
        /\ ~Reported(GcEv("Successful"))
        /\ ~InFound("vmware-tools")

\* a step failed after "Started"
C3_Witness ==
    /\ pc = "raised"
    /\ Reported(GcEv("Started"))
    /\ \E i \in EventIdx : IsRunningReport(events[i])

\* C4 (as claimed): "Started" is the first status the platform gets in every
\* run: no RUNNING report, no DONE report and no other status string comes
\* before it, also when collect_imc_file_paths fails.
C4_StartedFirst ==
    \A i \in EventIdx :
        IsStatusReport(events[i]) =>
            \E j \in 1..i : events[j] = GcEv("Started")

\* C5 (as claimed): every run that found cust.cfg has deleted the IMC
\* directory exactly once when it ends, the discard paths included.
C5_DeletedOnceWheneverFound ==
    (Terminal /\ custFound) => DelCount = 1

\* C5 (amended): every run that found cust.cfg and whose configuration the
\* feature flags did not discard has deleted the IMC directory exactly once
\* when it ends (success, step failure, failure of collect_imc_file_paths);
\* no run deletes it twice; a run whose configuration is discarded does not
\* delete it.
C5_DeletedOnceUnlessDiscarded ==
    /\ (Terminal /\ custFound /\ ~discarded) => DelCount = 1
    /\ DelCount <= 1
    /\ discarded => DelCount = 0
    /\ ~custFound => DelCount = 0

\* the marker step failed late in a run that found cust.cfg
C5_Witness ==
    /\ pc = "raised"
    /\ custFound
    /\ failed[1] = "marker"
    /\ DelCount = 1

\* the steps a run that is no special customization skips
SkippedSpecialSteps ==
    /\ ~Truthy(special_customization)
    /\ ~Reported(<<"password">>)
    /\ ~Reported(<<"prescript">>)
    /\ ~Reported(<<"postscript">>)

\* C6 (as claimed): once a run has written the marker file of marker id M,
\* every later legacy run with M skips the special steps, whatever runs
\* happened in between, with the same or with other marker ids (here: runs
\* whose setup_marker_files call returned).
C6_SkipsOnceEverWritten ==
    (Truthy(product_marker) /\ product_marker \in priorWritten
     /\ priorLast[1] = "ok")
        => SkippedSpecialSteps

\* C6 (amended): a legacy run with marker id M skips the special steps when
\* the last setup_marker_files call that changed the marker directory before
\* it was a successful one for M: no run in between wrote the marker file of
\* another id or failed after deleting the marker files.
C6_SkipsWhenLastWritten ==
    (Truthy(product_marker) /\ priorLast = <<"ok", product_marker>>)
        => SkippedSpecialSteps

\* a second run with the marker id of the run before, and a password to set
C6_Witness ==
    /\ pc = "ret_true"
    /\ Truthy(product_marker)
    /\ priorLast = <<"ok", product_marker>>
    /\ conf.admin_password = "secret"

\* C7: the marker directory never holds more than one marker file; after a
\* setup_marker_files call that returned it holds exactly the marker file of
\* that call's id; a second call with the same id changes nothing.
C7_OneMarkerFile ==
    /\ Cardinality(MarkerFilesIn(dir)) <= 1
    /\ lastMarkerCall[1] = "ok" =>
         MarkerFilesIn(dir) = {MarkerFileName(lastMarkerCall[2])}
    /\ \A m \in MarkerIds :
         /\ MarkerFilesIn(setup_marker_files(m, dir)) = {MarkerFileName(m)}
         /\ setup_marker_files(m, setup_marker_files(m, dir))
              = setup_marker_files(m, dir)

\* two marker ids were written one after the other
C7_Witness ==
    /\ lastMarkerCall[1] = "ok"
    /\ Cardinality(everWritten) >= 2
    /\ Cardinality(MarkerFilesIn(dir)) = 1

TransportIdx(name) ==
    {i \in EventIdx : events[i][1] = "transport" /\ events[i][2] = name}

VmwareIdx ==
    {i \in EventIdx : events[i] \in {ConsultEv("plugin"), ConsultEv("cust.cfg")}}

\* the seed file was found: the run read it or is about to
SeedFileFound ==
    pc = "seed_read" \/ failed[1] = "seed_read" \/ InFound("seed")

C9_WaitTerminates ==
    /\ <>(wpc = "done")
    /\ []((wpc = "done" /\ wresult = None) =>
            /\ totalSleep - maxwait <= naplen
            /\ maxwait - totalSleep <= naplen)

\* the call timed out after sleeping longer than maxwait
C9_Witness ==
    /\ wpc = "done"
    /\ wresult = None
    /\ totalSleep > maxwait

\* C10 (as claimed): no sleep of wait_for_imc_cfg_file is longer than the
\* budget that is left when it starts, maxwait minus the time waited so far.
C10_NapWithinBudget ==
    [][totalSleep' # totalSleep =>
         totalSleep' - totalSleep <= maxwait - waited]_vars

\* C11 (as claimed): get_max_wait_from_cfg returns a non-negative integer for
\* every configuration, never raising: the default for an empty
\* configuration, an absent option, a non-numeric or a negative value, and a
\* non-negative integer value unchanged.
C11_MaxWaitFromCfg ==
    /\ failed[1] # "get_max_wait"
    /\ pc = "wait" =>
         /\ maxwait >= 0
         /\ ds_cfg[1] \in {"empty", "absent", "str", "none"} =>
              maxwait = default_max_wait
         /\ ds_cfg[1] \in {"int", "digits"} =>
              maxwait = IF ds_cfg[2] < 0 THEN default_max_wait ELSE ds_cfg[2]

\* the positions of _get_data before collect_imc_file_paths has returned
BeforeCollect == {"start", "seed_read", "vmware_flags", "plugin", "wait", "cfg"}

\* collect_imc_file_paths raises exactly when the declared metadata file, or
\* the user-data file declared with it, is not in the IMC directory
RaisesWhenDeclaredFileMissing ==
    \A m \in {None, "", MetaDataFile}, u \in {None, "", UserDataFile},
       files \in SUBSET ImcFileNames :
       LET c == [NoConf EXCEPT !.meta_data_name = m, !.user_data_name = u]
       IN  (collect_imc_file_paths(c, files).error = "FileNotFoundError")
             <=> (Truthy(m) /\ (m \notin files
                                \/ (Truthy(u) /\ u \notin files)))

\* C12: collect_imc_file_paths raises the missing-file error exactly when a
\* metadata file name is declared and that file, or the user-data file
\* declared with it, does not exist; the run in which it raises is a hard
\* failure: RUNNING with the customize-failed event is reported, the IMC
\* directory is deleted, the error leaves _get_data, no transport is
\* consulted and nothing is published.  A run that got past the call has the
\* path of every file declared with a metadata file name.
C12_MissingFileIsHardFailure ==
    /\ RaisesWhenDeclaredFileMissing
    /\ failed[1] = "collect" =>
         /\ pc = "raised"
         /\ raised = "FileNotFoundError"
         /\ Truthy(conf.meta_data_name)
         /\ events[Len(events) - 2]
              = StatusEv(GUESTCUST_STATE_RUNNING,
                         GUESTCUST_EVENT_CUSTOMIZE_FAILED)
         /\ events[Len(events)] = DelDirEv
         /\ DelCount = 1
         /\ TransportIdx("com.vmware.guestInfo") = {}
         /\ TransportIdx("iso") = {}
         /\ ~Reported(DoneEv)
         /\ found = <<>>
         /\ published = <<>>
    /\ (custFound /\ pc \notin BeforeCollect /\ failed[1] # "collect"
        /\ Truthy(conf.meta_data_name)) =>
         /\ md_path = ImcPath(conf.meta_data_name)
         /\ Truthy(conf.user_data_name) =>
              ud_path = ImcPath(conf.user_data_name)

\* a run whose cust.cfg names a user-data file that is missing
C12_Witness ==
    /\ pc = "raised"
    /\ failed = <<"collect", "FileNotFoundError">>
    /\ Truthy(conf.user_data_name)

\* the collaborators of the two customization workflows
WorkflowEvents ==
    {"status", "gc", "del_dir", "enable_nics", "nics_parsed", "tools_config",
     "prescript", "net_config", "password", "postscript", "marker"}

\* the run found cust.cfg and the feature flags rule its customization out
FlagsRuleOut ==
    /\ custFound
    /\ pc \notin BeforeCollect
    /\ failed[1] # "collect"
    /\ \/ (Truthy(md_path) /\ ~allow_raw_data)
       \/ (md_path = None /\ ~allow_vmware_cust)

\* C13: a run whose VMware configuration is ruled out by the feature flags
\* (raw metadata with allow_raw_data off, or no raw metadata with
\* allow_vmware_cust off) goes on as a run without a VMware source: it reports
\* no customization status, runs no step of either workflow, and consults the
\* guest-RPC transport next.
C13_DiscardedFallsThrough ==
    FlagsRuleOut =>
        /\ vmwareImcConfigFilePath = None
        /\ \A i \in EventIdx : events[i][1] \notin WorkflowEvents
        /\ ~InFound("vmware-tools")
        /\ pc \in {"select", "transports", "iso", "ovf_read", "post",
                   "merge_seed", "defaults", "ret_true", "ret_false",
                   "raised"}
        /\ pc \notin {"select", "transports"} =>
             TransportIdx("com.vmware.guestInfo") # {}

\* a discarded legacy configuration, and the run ended with what ISO9660 gave
C13_Witness ==
    /\ discarded
    /\ md_path = None
    /\ nicspath # None
    /\ pc = "ret_true"
    /\ InFound("iso")

\* the letters of "vmware", in either case
VmwareLetters ==
    <<{"v", "V"}, {"m", "M"}, {"w", "W"}, {"a", "A"}, {"r", "R"}, {"e", "E"}>>

\* the product name holds "vmware", whatever the case of its letters
NamesVmware(st) ==
    /\ st[1] = "name"
    /\ \E i \in 0..(Len(st[2]) - Len(VmwareLetters)) :
         \A k \in DOMAIN VmwareLetters : st[2][i + k] \in VmwareLetters[k]

\* the run is in the VMware branch or has been: it searched for the plugin,
\* waited for cust.cfg or called a collaborator of a customization workflow
InVmwareBranch ==
    \/ pc \in {"plugin", "wait", "cfg", "raw", "raw_load", "raw_finish",
               "legacy", "legacy_parse", "prescript", "network", "password",
               "postscript", "marker", "legacy_finish"}
    \/ VmwareIdx # {}
    \/ \E i \in EventIdx : events[i][1] \in WorkflowEvents
    \/ failed[1] = "get_max_wait"
    \/ custFound
    \/ InFound("vmware-tools")

\* C14: the VMware branch is entered only without a seed file, on a platform
\* whose product name holds "vmware" in any case, with at least one of
\* allow_vmware_cust and allow_raw_data on; a datasource whose
\* vmware_customization_supported is false never enters it.
C14_VmwareBranchGuard ==
    InVmwareBranch =>
        /\ ~SeedFileFound
        /\ NamesVmware(system_type)
        /\ allow_vmware_cust \/ allow_raw_data
        /\ vmware_customization_supported

\* a run that waits for cust.cfg with raw data as its only enabled feature, on
\* a platform whose product name holds "vmware" in mixed case
C14_Witness ==
    /\ pc = "wait"
    /\ system_type = <<"name", <<"V", "M", "w", "a", "r", "e", "7">>>>
    /\ ~allow_vmware_cust
    /\ allow_raw_data

\* the run searched for the plugin and is past the wait without a cust.cfg:
\* the plugin was absent, or it was present and the file did not come
NoCustCfg ==
    /\ Reported(ConsultEv("plugin"))
    /\ ~custFound
    /\ pc \notin {"plugin", "wait"}

\* the transport was consulted and returned nothing
ReturnedNothing(name) ==
    \E i \in TransportIdx(name) : ~Truthy(events[i][3])

\* C15 (as claimed): on a VMware platform, when the plugin is absent or
\* cust.cfg does not appear within max-wait, the run goes on to guest-RPC and
\* then ISO9660, reports no customization status, and when both return nothing
\* _get_data returns False without raising.
C15_NoCfgFallsThrough ==
    NoCustCfg =>
        /\ failed[1] # "get_max_wait"
        /\ \A i \in EventIdx : events[i][1] \notin WorkflowEvents
        /\ pc \notin {"select", "transports"} =>
             TransportIdx("com.vmware.guestInfo") # {}
        /\ (ReturnedNothing("com.vmware.guestInfo") /\ pc # "iso") =>
             TransportIdx("iso") # {}
        /\ (ReturnedNothing("com.vmware.guestInfo") /\ ReturnedNothing("iso")
            /\ pc # "post") =>
             (pc = "ret_false" /\ raised = None /\ published = <<>>)

\* the metadata the run published as self.metadata
PublishedMd == published[2]

\* C16: when _get_data returns True the published metadata has the key
\* instance-id; an instance-id of the resolved or of the seed metadata is
\* carried to the published metadata, and the default "iid-dsovf" is there
\* only when neither had one.
C16_DefaultsNeverOverride ==
    /\ [](pc = "ret_true" => "instance-id" \in DOMAIN PublishedMd)
    /\ [][pc = "merge_seed" =>
            (("instance-id" \in (DOMAIN md) \cup (DOMAIN md_seed))
               => "instance-id" \in DOMAIN md')]_vars
    /\ [][pc = "defaults" =>
            /\ pc' = "ret_true"
            /\ published'[2] = md'
            /\ \A k \in DOMAIN md : md'[k] = md[k]
            /\ "instance-id" \notin DOMAIN md
                 => md'["instance-id"] = defaults["instance-id"]]_vars

\* the seed supplied the instance-id, and it is the published one
C16_Witness ==
    /\ pc = "ret_true"
    /\ Reported(<<"read_seeded">>)
    /\ PublishedMd["instance-id"] = <<"iid-seed">>

\* the run merged the metadata of the seedfrom location
SeedMerged ==
    /\ Reported(<<"read_seeded">>)
    /\ pc \in {"defaults", "ret_true"}

AfterSeedCheck == {"merge_seed", "defaults", "ret_true", "ret_false", "raised"}

\* the resolved metadata has a non-empty seedfrom that starts with none of the
\* prefixes of the datasource: "/" and "file://" for DataSourceOVF, "http://"
\* and "https://" for DataSourceOVFNet
UnsupportedSeedFrom ==
    /\ Len(found) > 0
    /\ "seedfrom" \in DOMAIN md
    /\ md["seedfrom"] # <<>>
    /\ md["seedfrom"][1] \notin
         (IF vmware_customization_supported THEN {"/", "file://"}
          ELSE {"http://", "https://"})

\* C18: with a non-empty seedfrom of an unsupported scheme the run is aborted:
\* _get_data returns False, util.read_seeded is not called, and seed,
\* metadata, userdata_raw, vendordata_raw and cfg are not assigned.
C18_UnsupportedSeedAborts ==
    (pc \in AfterSeedCheck /\ UnsupportedSeedFrom) =>
        /\ pc = "ret_false"
        /\ raised = None
        /\ ~Reported(<<"read_seeded">>)
        /\ md_seed = EmptyMd
        /\ published = <<>>

\* a DataSourceOVFNet run whose OVF document names a seed in the file system
C18_Witness ==
    /\ pc = "ret_false"
    /\ ~vmware_customization_supported
    /\ UnsupportedSeedFrom
    /\ md["seedfrom"] = <<"/", "seed">>

\* C19 (as claimed): a malformed OVF document of the seed file, of guest-RPC
\* or of ISO9660 does not end _get_data with an exception; the run goes on as
\* if that source had produced nothing, and a run outside the VMware branch
\* in which no source yields data returns False.
C19_ParseErrorNotFatal ==
    /\ failed[1] \notin {"seed_read", "ovf_read"}
    /\ (Terminal /\ found = <<>> /\ ~InVmwareBranch) => pc = "ret_false"

\* collect_imc_file_paths has returned its triple in this run
Collected ==
    /\ custFound
    /\ pc \notin BeforeCollect
    /\ failed[1] # "collect"

\* C20 (as claimed): of the triple collect_imc_file_paths returned, exactly
\* one of the metadata path and the nics path is not None.
C20_ExactlyOnePath ==
    Collected => ((md_path # None) # (nicspath # None))

\* the triple of every configuration and every state of the IMC directory
TripleOfEveryConfig ==
    \A c \in Configs, files \in SUBSET ImcFileNames :
       LET r == collect_imc_file_paths(c, files)
       IN  r.error = None =>
             /\ ~(r.md_path # None /\ r.nics_path # None)
             /\ (r.md_path # None) <=> Truthy(c.meta_data_name)
             /\ (r.nics_path # None)
                  <=> (~Truthy(c.meta_data_name) /\ NicsFile \in files)

\* C20 (amended): of the triple collect_imc_file_paths returns, the metadata
\* path and the nics path are never both set: the metadata path is set
\* exactly when a metadata file name is declared, the nics path exactly when
\* none is declared and nics.txt exists, and both are None when no metadata
\* file name is declared and there is no nics.txt.
C20_AtMostOnePath ==
    /\ TripleOfEveryConfig
    /\ Collected =>
          /\ ~(md_path # None /\ nicspath # None)
          /\ (md_path # None) <=> Truthy(conf.meta_data_name)
          /\ nicspath # None => ~Truthy(conf.meta_data_name)

\* a legacy run to its end with neither a metadata file nor nics.txt
C20_Witness ==
    /\ Collected
    /\ md_path = None
    /\ nicspath = None
    /\ pc = "ret_true"
    /\ InFound("vmware-tools")

\* the marker directories a check can meet: any files of the marker ids, of
\* the empty id, and the other files of cloud_dir/data
MarkerDirs ==
    SUBSET ({<<".markerfile", "-", m, ".txt">> : m \in MarkerIds \cup {""}}
            \cup OtherDataFiles)

\* check_marker_exists is False for an absent and for an empty marker id in
\* every directory, and for a marker id it tells whether the file
\* .markerfile-<id>.txt is there
CheckMarkerExistsContract ==
    \A d \in MarkerDirs :
       /\ ~check_marker_exists(None, d)
       /\ ~check_marker_exists("", d)
       /\ \A m \in MarkerIds :
            check_marker_exists(m, d) <=> (<<".markerfile", "-", m, ".txt">> \in d)

\* C21: a legacy run is a special customization exactly when the config
\* declares a non-empty marker id and the marker file of that id is not in
\* the marker directory when the run checks; check_marker_exists is False for
\* an empty or absent marker id whatever the directory holds.
C21_SpecialIffNoMarker ==
    /\ [](CheckMarkerExistsContract)
    /\ [][(pc = "legacy_parse" /\ pc' = "prescript") =>
            /\ product_marker' = conf.marker_id
            /\ Truthy(special_customization')
                 <=> (/\ conf.marker_id \notin {None, ""}
                      /\ <<".markerfile", "-", conf.marker_id, ".txt">>
                           \notin dir)]_vars

\* a special customization although the marker file of another id is there
C21_Witness ==
    /\ pc = "prescript"
    /\ Truthy(special_customization)
    /\ priorLast[1] = "ok"
    /\ priorLast[2] # product_marker
    /\ MarkerFilesIn(dir) # {}

\* pwdConfigurator.configure was called in this run
PasswordCalled ==
    Reported(<<"password">>) \/ failed[1] = "password"

\* the marker file of the run's marker id was there when the run checked
MarkerFileWasThere ==
    /\ Truthy(product_marker)
    /\ priorLast = <<"ok", product_marker>>

\* C22: the password is configured only in a run that is a special
\* customization and has an admin password or the reset flag set; a run whose
\* marker file was there, or whose config has no marker id, never configures
\* the password, and neither does a run off the legacy path.
C22_PasswordOnlyIfSpecial ==
    /\ PasswordCalled =>
         /\ Truthy(special_customization)
         /\ Truthy(conf.admin_password) \/ Truthy(conf.reset_password)
         /\ md_path = None
         /\ Reported(GcEv("Started"))
    /\ (MarkerFileWasThere \/ conf.marker_id \in {None, ""})
         => ~PasswordCalled

\* the password was reset in a run without an admin password
C22_Witness ==
    /\ Reported(<<"password">>)
    /\ conf.admin_password = None
    /\ conf.reset_password = "True"
    /\ pc = "ret_true"

\* the legacy run got past the parsing of the configuration
LegacyParsed == Reported(<<"nics_parsed">>)

\* the indices of the events of the kind
EventsOfKind(kind) == {i \in EventIdx : events[i][1] = kind}

\* C23: a legacy run that got past the parsing derives the network
\* configuration, special customization or not, before it writes the marker
\* file and before it reports DONE; when the derivation fails the run reports
\* RUNNING with the network-setup-failed event and ends.
C23_NetworkAlwaysDerived ==
    /\ (LegacyParsed /\ pc \notin {"prescript", "network"}) =>
         \/ (Reported(<<"net_config">>) /\ network_config = "network")
         \/ failed[1] = "network"
    /\ \A i \in EventIdx :
         (events[i][1] = "marker" \/ (LegacyParsed /\ events[i] = DoneEv)) =>
            \E j \in EventsOfKind("net_config") : j < i
    /\ failed[1] = "network" =>
         /\ pc = "raised"
         /\ Reported(StatusEv(GUESTCUST_STATE_RUNNING,
                              GUESTCUST_EVENT_NETWORK_SETUP_FAILED))
         /\ ~Reported(StatusEv(GUESTCUST_STATE_RUNNING,
                               GUESTCUST_EVENT_CUSTOMIZE_FAILED))
         /\ Reported(GcEv("Error preparing Network Configuration"))
         /\ EventsOfKind("marker") = {}
         /\ ~Reported(DoneEv)

\* a run that is no special customization derived the network configuration
\* and went on to its end
C23_Witness ==
    /\ pc = "ret_true"
    /\ LegacyParsed
    /\ ~Truthy(special_customization)
    /\ Reported(<<"net_config">>)
    /\ Reported(DoneEv)

\* collect_imc_file_paths returned a metadata path and raw data is allowed
RawDataRun ==
    /\ Collected
    /\ Truthy(md_path)
    /\ allow_raw_data

\* the collaborators of the steps 3 to 8 of the legacy workflow
LegacyStepEvents ==
    {"nics_parsed", "tools_config", "prescript", "net_config", "password",
     "postscript", "marker", "enable_nics"}

\* C24: a run with a metadata path and raw data allowed takes the raw-data
\* workflow: it parses no nics.txt, checks and writes no marker file,
\* configures no password, runs no script and enables no NICs; once the data
\* is loaded it deletes the IMC directory, reports DONE with the success code
\* and then "Successful", right after "Started" and with nothing in between.
C24_RawPathShortCircuits ==
    RawDataRun =>
        /\ ~discarded
        /\ pc \in {"select", "raw", "raw_load", "raw_finish", "post",
                   "merge_seed", "defaults", "ret_true", "ret_false",
                   "raised"}
        /\ \A i \in EventIdx : events[i][1] \notin LegacyStepEvents
        /\ product_marker = None
        /\ special_customization = None
        /\ nics_to_enable = None
        /\ failed[1] \in {None, "raw_yaml", "raw_load", "read_seeded"}
        /\ pc \notin {"select", "raw"} => Reported(GcEv("Started"))
        /\ (pc \notin {"select", "raw", "raw_load", "raw_finish"}
            /\ failed[1] \notin {"raw_yaml", "raw_load"}) =>
             /\ InFound("vmware-tools")
             /\ DelCount = 1
             /\ \E i \in EventIdx :
                  /\ i + 3 <= Len(events)
                  /\ events[i] = GcEv("Started")
                  /\ events[i + 1] = DelDirEv
                  /\ events[i + 2] = DoneEv
                  /\ events[i + 3] = GcEv("Successful")

\* a raw-data run with metadata and user data that came to its end
C24_Witness ==
    /\ RawDataRun
    /\ Truthy(ud_path)
    /\ pc = "ret_true"
    /\ conf.marker_id # None
    /\ conf.admin_password = "secret"

\* the collaborators that exist only for the custom script
ScriptEvents == {"tools_config", "prescript", "postscript"}

\* C25: the custom script is always null, so no run executes a
\* pre-customization or post-customization script, none looks up
\* enable-custom-scripts in the tools configuration, none reports the
\* script-disabled error code, and no run fails in a script step.
C25_NoCustomScript ==
    /\ \A i \in EventIdx :
         /\ events[i][1] \notin ScriptEvents
         /\ events[i] # StatusEv(GUESTCUST_STATE_RUNNING,
                                 GUESTCUST_ERROR_SCRIPT_DISABLED)
    /\ failed[1] \notin {"prescript", "postscript"}
    /\ raised # "RuntimeError"

\* a special customization, the only kind that could run the script, went
\* through both script steps and wrote its marker file
C25_Witness ==
    /\ Truthy(special_customization)
    /\ Reported(<<"marker", product_marker>>)
    /\ Reported(<<"password">>)
    /\ pc = "legacy_finish"

\* C26: a run that reported DONE with the success code to the platform ends
\* by returning True, with "vmware-tools" in its provenance and its metadata
\* published; it neither returns False nor raises after the report.
C26_DoneMeansReturnsTrue ==
    (Reported(DoneEv) /\ Terminal) =>
        /\ pc = "ret_true"
        /\ raised = None
        /\ InFound("vmware-tools")
        /\ published # <<>>

\* the positions in events of the RUNNING reports of this run
ErrorReports == {i \in EventIdx : IsRunningReport(events[i])}

\* DONE with the success code, followed by "Successful"
SuccessOutcome ==
    \E i \in EventIdx :
        /\ events[i] = DoneEv
        /\ i + 1 <= Len(events)
        /\ events[i + 1] = GcEv("Successful")

\* one RUNNING report with the code of the failed step, followed by the prefix
\* of the step, and the error of the step raised to the caller
FailureOutcome ==
    /\ Cardinality(ErrorReports) = 1
    /\ pc = "raised"
    /\ failed[1] \in HandledSteps
    /\ raised = failed[2]
    /\ \A i \in ErrorReports :
         /\ events[i] = StatusEv(GUESTCUST_STATE_RUNNING, StepCode(failed[1]))
         /\ i + 1 <= Len(events)
         /\ events[i + 1] = GcEv(StepPrefix(failed[1]))

StartedReported == Reported(GcEv("Started"))

====
